---- MODULE Spec2Model ----
(***************************************************************************)
(* Model of resize-image (src/src/main.rs): a command line program that    *)
(* decodes every image named on the command line, scales it down so that   *)
(* it fits a 1280 pixel box, re-encodes it as JPEG with mozjpeg and writes *)
(* it as resized_<name> beside the first argument, one rayon task per      *)
(* file, and then waits for a key press.                                   *)
(*                                                                         *)
(* Three specifications share the module:                                  *)
(*   SpecResize    resize()'s dimension arithmetic as a pure function      *)
(*   SpecCompress  compress()'s scanline loop as a pure function           *)
(*   Spec          main(): setup, filter, the parallel tasks, the pause    *)
(***************************************************************************)
EXTENDS Integers, Sequences, FiniteSets

VARIABLES
    \* ---- resize() as a pure function (SpecResize)
    rWidth,         \* img.width() of the decoded source image
    rHeight,        \* img.height() of the decoded source image
    rPc,            \* "idle" | "call" | "returned"
    rResult,        \* the (width, height) resize returns
    \* ---- compress() as a pure function (SpecCompress)
    cWidth,         \* target_width
    cHeight,        \* target_height
    cDataLen,       \* resized_img_data.len()
    overflowChecks, \* the build: TRUE = overflow checks on (debug profile)
    cPc,            \* "idle" | "start" | "loop" | "finish" | "returned" | "panicked"
    line,           \* the loop counter of compress
    rows,           \* the scanlines handed to write_scanlines, in order
    cResult,        \* "none" | "Ok" | "Err"
    \* ---- main() (Spec)
    args,           \* env::args().skip(1)
    mainPc,         \* "idle" | "start" | "running" | "paused" | "exited" | "returned" | "panicked"
    dirs,           \* the directories that exist
    targetDir,      \* target_dir
    sourceFiles,    \* source_files
    task,           \* per element of source_files: where process() is, what it holds
    processCalls,   \* how many times process() has been called with each path
    outcomes,       \* per element of source_files, the outcome lines printed for it
    created,        \* the File::create calls that succeeded: [path, by]
    disk,           \* the files the tasks have made, as they are now
    pauses          \* how many times pause() has run

resizeVars == <<rWidth, rHeight, rPc, rResult>>
compressVars == <<cWidth, cHeight, cDataLen, overflowChecks, cPc, line, rows, cResult>>
mainVars == <<args, mainPc, dirs, targetDir, sourceFiles, task, processCalls, outcomes, created, disk, pauses>>
vars == <<resizeVars, compressVars, mainVars>>

Max(a, b) == IF a >= b THEN a ELSE b

(***************************************************************************)
(* const TARGET_SIZE: usize = 1280;                                        *)
(***************************************************************************)
TARGET_SIZE == 1280

(***************************************************************************)
(* IEEE-754 binary32 arithmetic, as used by lines 66-70.  A positive f32   *)
(* is the record [m, e] standing for m / 2^e with 2^23 <= m < 2^24.       *)
(* Integers here are 32 bits wide, so the product of an image side and a   *)
(* significand is kept in two limbs of base 2^12.                          *)
(***************************************************************************)
MantMin == 2^23
MantMax == 2^24
Limb == 2^12

RECURSIVE BitLen(_)
BitLen(n) == IF n = 0 THEN 0 ELSE 1 + BitLen(n \div 2)

\* Long division: doubles the quotient q = floor(n * 2^e / d) until it has 24 bits.
RECURSIVE F32Quot(_, _, _, _)
F32Quot(q, r, e, d) ==
    IF q >= MantMin THEN [q |-> q, r |-> r, e |-> e]
    ELSE LET r2 == 2 * r
             b == IF r2 >= d THEN 1 ELSE 0
         IN F32Quot(2 * q + b, r2 - b * d, e + 1, d)

\* n as f32 / d as f32, rounded to nearest, ties to even (n, d < 2^23 are exact f32).
F32Div(n, d) ==
    LET s == F32Quot(n \div d, n % d, 0, d)
        up == 2 * s.r > d \/ (2 * s.r = d /\ s.q % 2 = 1)
        m == IF up THEN s.q + 1 ELSE s.q
    IN IF m = MantMax THEN [m |-> MantMin, e |-> s.e - 1] ELSE [m |-> m, e |-> s.e]

\* (x as f32 * f) as usize: the exact product x * f.m / 2^(f.e) is rounded to 24
\* significant bits (nearest, ties to even) and then truncated toward zero.
F32MulTrunc(x, f) ==
    LET mh == f.m \div Limb
        ml == f.m % Limb
        b == x * ml
        hi == x * mh + b \div Limb          \* product = hi * 2^12 + lo
        lo == b % Limb
        k == 2^(f.e - 12)
        n == hi \div k                      \* floor of the exact product
        s == IF hi > 0 THEN BitLen(hi) - 12 ELSE 0   \* bits the rounding drops
        dh == k - (hi % k) - 1              \* (n + 1) - product = dh * 2^12 + dl, in 2^-e
        dl == Limb - lo
        roundsUp == s >= 1 /\ dh < 2^18 /\ dh * Limb + dl <= 2^(s - 1)
    IN IF roundsUp THEN n + 1 ELSE n

(***************************************************************************)
(* Lines 65-71: the box handed to img.resize.                              *)
(***************************************************************************)
TargetBox(width, height) ==
    IF width > height
    THEN LET ratio == F32Div(TARGET_SIZE, width)
         IN [w |-> TARGET_SIZE, h |-> F32MulTrunc(height, ratio)]
    ELSE LET ratio == F32Div(TARGET_SIZE, height)
         IN [w |-> F32MulTrunc(width, ratio), h |-> TARGET_SIZE]

(***************************************************************************)
(* img.resize(nwidth, nheight, Lanczos3) of the image crate, lines 72-76,  *)
(* and resized_img.width()/height(), lines 79-80.  DynamicImage::resize    *)
(* preserves the aspect ratio: "The image is scaled to the maximum         *)
(* possible size that fits within the bounds specified by nwidth and       *)
(* nheight."  The crate takes ratio = min(nwidth/width, nheight/height)    *)
(* in f64 and returns max(round(width * ratio), 1) by                      *)
(* max(round(height * ratio), 1).  The model computes with the exact       *)
(* ratio num/den; where the exact product lies on .5 the f64 rounding      *)
(* error decides the direction, so both neighbours are possible there.     *)
(***************************************************************************)
RoundHalf(a, b) ==
    IF 2 * (a % b) = b THEN {a \div b, a \div b + 1}
    ELSE IF 2 * (a % b) > b THEN {a \div b + 1}
    ELSE {a \div b}

ImageResize(width, height, nwidth, nheight) ==
    LET useW == nwidth * height <= nheight * width
        num == IF useW THEN nwidth ELSE nheight
        den == IF useW THEN width ELSE height
    IN {[w |-> Max(rw, 1), h |-> Max(rh, 1)] :
            rw \in RoundHalf(width * num, den), rh \in RoundHalf(height * num, den)}

\* The policy that resizes every image to the bound.
NeedsResize_Always(width, height) == TRUE

\* Line 64: does the image go through img.resize?
NeedsResize(width, height) == width > TARGET_SIZE \/ height > TARGET_SIZE

(***************************************************************************)
(* resize(), lines 59-85, for an image that decoded: the set of            *)
(* (width, height) pairs it can return.                                    *)
(***************************************************************************)
Resize(width, height) ==
    IF NeedsResize(width, height)
    THEN LET box == TargetBox(width, height)
         IN ImageResize(width, height, box.w, box.h)
    ELSE {[w |-> width, h |-> height]}

(***************************************************************************)
(* Bounds of the model.                                                    *)
(***************************************************************************)
Margin == 2        \* the sides around TARGET_SIZE, TARGET_SIZE-Margin..TARGET_SIZE+Margin
MaxWidth == 3      \* compress: target_width in 0..MaxWidth
MaxHeight == 4     \* compress: target_height in 0..MaxHeight
MaxArgs == 3       \* main: at most MaxArgs command line arguments

\* Image sides of photographs (4:3 and nearly 4:3) beside the boundary cases.
SampleDims == {600, 800, 1179, 1500, 1572, 2001, 3000, 4000}
Dims == ((TARGET_SIZE - Margin)..(TARGET_SIZE + Margin)) \cup SampleDims


(***************************************************************************)
(* The three parts at rest: a specification leaves the parts it does not   *)
(* exercise in these states.                                               *)
(***************************************************************************)
ResizeIdle ==
    /\ rWidth = 0
    /\ rHeight = 0
    /\ rPc = "idle"
    /\ rResult = [w |-> 0, h |-> 0]

CompressIdle ==
    /\ cWidth = 0
    /\ cHeight = 0
    /\ cDataLen = 0
    /\ overflowChecks = FALSE
    /\ cPc = "idle"
    /\ line = 0
    /\ rows = <<>>
    /\ cResult = "none"

MainIdle ==
    /\ args = <<>>
    /\ mainPc = "idle"
    /\ dirs = {}
    /\ targetDir = "none"
    /\ sourceFiles = <<>>
    /\ task = <<>>
    /\ processCalls = <<>>
    /\ outcomes = <<>>
    /\ created = {}
    /\ disk = {}
    /\ pauses = 0

(***************************************************************************)
(* SpecResize: resize() applied to every decoded image of the bounded set. *)
(***************************************************************************)
ResizeInit ==
    /\ rWidth \in Dims
    /\ rHeight \in Dims
    /\ rPc = "call"
    /\ rResult = [w |-> 0, h |-> 0]
    /\ CompressIdle
    /\ MainIdle

\* resize(path) for a path that image::open decodes, lines 59-85.
ResizeCall ==
    /\ rPc = "call"
    /\ \E res \in Resize(rWidth, rHeight) : rResult' = res
    /\ rPc' = "returned"
    /\ UNCHANGED <<rWidth, rHeight, compressVars, mainVars>>

NextResize == ResizeCall

SpecResize == ResizeInit /\ [][NextResize]_vars

(***************************************************************************)
(* SpecCompress: compress() applied to every size of the bounded set, the  *)
(* pixel buffer holding width * height RGB triples as resize() builds it   *)
(* (to_rgb8().to_vec(), lines 78 and 83), under both build profiles.       *)
(***************************************************************************)
CompressInit ==
    /\ cWidth \in 0..MaxWidth
    /\ cHeight \in 0..MaxHeight
    /\ cDataLen = cWidth * cHeight * 3
    /\ overflowChecks \in BOOLEAN
    /\ cPc = "start"
    /\ line = 0
    /\ rows = <<>>
    /\ cResult = "none"
    /\ ResizeIdle
    /\ MainIdle

\* Lines 92-101: the encoder is set up and the loop counter starts at 0.  The
\* source puts no condition on the size it hands to set_size.
CompressStart ==
    /\ cPc = "start"
    /\ cPc' = "loop"
    /\ line' = 0
    /\ UNCHANGED <<cWidth, cHeight, cDataLen, overflowChecks, rows, cResult, resizeVars, mainVars>>

\* The loop test off by one: line >= target_height - 1.
LoopDone_SkipsLastRow(l, target_height) ==
    IF target_height = 0 THEN FALSE ELSE l >= target_height - 1

\* Line 103: line > target_height - 1 in usize.  For target_height = 0 the
\* subtraction wraps to usize::MAX when overflow checks are off, and no usize
\* exceeds that.

LoopDone(l, target_height) ==
    IF target_height = 0 THEN FALSE ELSE l > target_height - 1

\* The loop may run without end (target_height = 0, target_width = 0, overflow
\* checks off); the model follows it for LineCap iterations.
LineCap == MaxHeight + 2

\* One iteration of the loop, lines 102-110.
CompressLoop ==
    /\ cPc = "loop"
    /\ line < LineCap
    /\ IF cHeight = 0 /\ overflowChecks
       THEN \* attempt to subtract with overflow
            /\ cPc' = "panicked"
            /\ UNCHANGED <<line, rows>>
       ELSE IF LoopDone(line, cHeight)
       THEN /\ cPc' = "finish"
            /\ UNCHANGED <<line, rows>>
       ELSE IF (line + 1) * cWidth * 3 > cDataLen
       THEN \* range end index out of range for slice
            /\ cPc' = "panicked"
            /\ UNCHANGED <<line, rows>>
       ELSE /\ rows' = Append(rows, [line |-> line,
                                     from |-> line * cWidth * 3,
                                     to |-> (line + 1) * cWidth * 3])
            /\ line' = line + 1
            /\ UNCHANGED cPc
    /\ UNCHANGED <<cWidth, cHeight, cDataLen, overflowChecks, cResult, resizeVars, mainVars>>

\* Lines 111-116: data_to_vec gives the bytes or fails.
CompressFinish ==
    /\ cPc = "finish"
    /\ \E res \in {"Ok", "Err"} : cResult' = res
    /\ cPc' = "returned"
    /\ UNCHANGED <<cWidth, cHeight, cDataLen, overflowChecks, line, rows, resizeVars, mainVars>>

NextCompress == CompressStart \/ CompressLoop \/ CompressFinish

SpecCompress == CompressInit /\ [][NextCompress]_vars


(***************************************************************************)
(* Paths.  A file name is the record [pre, stem, ext]: pre counts the      *)
(* leading "resized_" prefixes, ext = "" is a name without extension.  A   *)
(* path is [dir, name]; dir = "" is the parent of a bare relative name     *)
(* (Path::parent gives Some("")), dir = "none" marks the root, which has   *)
(* neither parent nor file name.                                           *)
(***************************************************************************)
Name(pre, stem, ext) == [pre |-> pre, stem |-> stem, ext |-> ext]
NoName == Name(0, "", "")
Path(dir, name) == [dir |-> dir, name |-> name]

\* The file system when the program starts: directory a with two photographs
\* (one of them named like an output of the program), a file that is no image,
\* a file without extension and a directory; a photograph in the working
\* directory, named like the one in a; a path under a directory that does not
\* exist; and the root.
FileSystem == {
    [path |-> Path("a", Name(0, "x", "jpg")),   kind |-> "file", image |-> TRUE,  w |-> 4000, h |-> 3000],
    [path |-> Path("a", Name(1, "x", "jpg")),   kind |-> "file", image |-> TRUE,  w |-> 1572, h |-> 1179],
    [path |-> Path("a", Name(0, "bad", "jpg")), kind |-> "file", image |-> FALSE, w |-> 0,    h |-> 0],
    [path |-> Path("a", Name(0, "noext", "")),  kind |-> "file", image |-> TRUE,  w |-> 800,  h |-> 600],
    [path |-> Path("a", Name(0, "d", "jpg")),   kind |-> "dir",  image |-> FALSE, w |-> 0,    h |-> 0],
    [path |-> Path("", Name(0, "x", "jpg")),    kind |-> "file", image |-> TRUE,  w |-> 2001, h |-> 1500],
    [path |-> Path("new", Name(0, "z", "jpg")), kind |-> "none", image |-> FALSE, w |-> 0,    h |-> 0],
    [path |-> Path("none", NoName),             kind |-> "dir",  image |-> FALSE, w |-> 0,    h |-> 0] }

Paths == {f.path : f \in FileSystem}
Entry(p) == CHOOSE f \in FileSystem : f.path = p
StartDirs == {"a"}

RECURSIVE SeqsUpTo(_, _)
SeqsUpTo(S, n) ==
    IF n = 0 THEN {<<>>}
    ELSE LET shorter == SeqsUpTo(S, n - 1)
         IN shorter \cup {Append(q, x) : q \in shorter, x \in S}

\* A filter that only asks whether the path exists.
Eligible_AnyExistingPath(p) == Entry(p).kind # "none"

\* p.is_file() && p.file_name().is_some() && p.extension().is_some(), line 25.

Eligible(p) == Entry(p).kind = "file" /\ p.name # NoName /\ p.name.ext # ""

\* target_dir.join("resized_".to_string() + &file_name), line 50.
TargetFile(dir, p) == Path(dir, [p.name EXCEPT !.pre = @ + 1])

Terminal == {"ok", "failed"}

(***************************************************************************)
(* Spec: main().                                                           *)
(***************************************************************************)
Init ==
    /\ args \in SeqsUpTo(Paths, MaxArgs)
    /\ mainPc = "start"
    /\ dirs = StartDirs
    /\ targetDir = "none"
    /\ sourceFiles = <<>>
    /\ task = <<>>
    /\ processCalls = [p \in Paths |-> 0]
    /\ outcomes = <<>>
    /\ created = {}
    /\ disk = {}
    /\ pauses = 0
    /\ ResizeIdle
    /\ CompressIdle

\* Lines 14-17 without an argument: main returns.
MainNoArgs ==
    /\ mainPc = "start"
    /\ Len(args) = 0
    /\ mainPc' = "returned"
    /\ UNCHANGED <<args, dirs, targetDir, sourceFiles, task, processCalls, outcomes, created, disk, pauses,
                   resizeVars, compressVars>>

\* Lines 15 and 18-20: parent().unwrap() panics on a path without parent;
\* create_dir(..).unwrap() panics when a missing target_dir cannot be made.
SetupCanPanic(first, existing) ==
    IF first.dir = "none" THEN TRUE ELSE first.dir \notin existing

\* create_dir("") finds no such path; any other missing directory can be made.
SetupCanPass(first, existing) ==
    IF first.dir = "none" THEN FALSE
    ELSE IF first.dir \in existing THEN TRUE
    ELSE first.dir # ""

\* Lines 14-20 when an unwrap fails.
MainSetupPanics ==
    /\ mainPc = "start"
    /\ Len(args) > 0
    /\ SetupCanPanic(args[1], dirs)
    /\ mainPc' = "panicked"
    /\ UNCHANGED <<args, dirs, targetDir, sourceFiles, task, processCalls, outcomes, created, disk, pauses,
                   resizeVars, compressVars>>

\* Lines 14-29: target_dir, create_dir, the filter, and the start of par_iter.
MainSetup ==
    /\ mainPc = "start"
    /\ Len(args) > 0
    /\ SetupCanPass(args[1], dirs)
    /\ targetDir' = args[1].dir
    /\ dirs' = dirs \cup {args[1].dir}
    /\ sourceFiles' = SelectSeq(args, Eligible)
    /\ task' = [i \in 1..Len(SelectSeq(args, Eligible)) |->
                    [pc |-> "queued", w |-> 0, h |-> 0, made |-> FALSE, failedAt |-> "none"]]
    /\ outcomes' = [i \in 1..Len(SelectSeq(args, Eligible)) |-> <<>>]
    /\ mainPc' = "running"
    /\ UNCHANGED <<args, processCalls, created, disk, pauses, resizeVars, compressVars>>

\* What image::open(path) finds, line 60: the file as a task left it, or else
\* the file of the starting file system.  A file that File::create has
\* truncated and that is not written yet does not decode.
Decoded(p) ==
    IF \E d \in disk : d.path = p
    THEN LET d == CHOOSE d \in disk : d.path = p
         IN [image |-> d.state = "complete", w |-> d.w, h |-> d.h]
    ELSE [image |-> Entry(p).image, w |-> Entry(p).w, h |-> Entry(p).h]

\* The closure's match arms, lines 31-32: one line per result of process.
Report(i, res) == outcomes' = [outcomes EXCEPT ![i] = Append(@, res)]

\* compress() as process() sees it, lines 45-48: with pixels to encode it returns
\* the bytes or the error of data_to_vec (SpecCompress follows the loop); with
\* no pixels it does not return.
CompressResults(width, height) ==
    IF width = 0 \/ height = 0 THEN {"panic"} ELSE {"Ok", "Err"}

\* process(), lines 38-48: resize(path), then compress(..), both in memory.  A
\* panic inside the task is carried by rayon to the caller of for_each.
TaskResizeCompress(i) ==
    /\ mainPc = "running"
    /\ task[i].pc = "queued"
    /\ processCalls' = [processCalls EXCEPT ![sourceFiles[i]] = @ + 1]
    /\ LET img == Decoded(sourceFiles[i])
       IN IF ~img.image
          THEN /\ task' = [task EXCEPT ![i] = [@ EXCEPT !.pc = "failed", !.failedAt = "resize"]]
               /\ Report(i, "fail")
               /\ UNCHANGED mainPc
          ELSE \E res \in Resize(img.w, img.h) :
               \E c \in CompressResults(res.w, res.h) :
                  CASE c = "Ok" ->
                         /\ task' = [task EXCEPT ![i] =
                                        [@ EXCEPT !.pc = "compressed", !.w = res.w, !.h = res.h]]
                         /\ UNCHANGED <<outcomes, mainPc>>
                    [] c = "Err" ->
                         /\ task' = [task EXCEPT ![i] =
                                        [@ EXCEPT !.pc = "failed", !.failedAt = "compress"]]
                         /\ Report(i, "fail")
                         /\ UNCHANGED mainPc
                    [] c = "panic" ->
                         /\ mainPc' = "panicked"
                         /\ UNCHANGED <<task, outcomes>>
    /\ UNCHANGED <<args, dirs, targetDir, sourceFiles, created, disk, pauses,
                   resizeVars, compressVars>>

\* process(), lines 50-52: File::create(target_file) makes or truncates the file.
TaskCreate(i) ==
    /\ mainPc = "running"
    /\ task[i].pc = "compressed"
    /\ LET target == TargetFile(targetDir, sourceFiles[i])
       IN \E ok \in BOOLEAN :
            IF ok
            THEN /\ task' = [task EXCEPT ![i] = [@ EXCEPT !.pc = "created", !.made = TRUE]]
                 /\ created' = created \cup {[path |-> target, by |-> i]}
                 /\ disk' = {d \in disk : d.path # target}
                              \cup {[path |-> target, state |-> "truncated", w |-> 0, h |-> 0]}
                 /\ UNCHANGED outcomes
            ELSE /\ task' = [task EXCEPT ![i] = [@ EXCEPT !.pc = "failed", !.failedAt = "create"]]
                 /\ Report(i, "fail")
                 /\ UNCHANGED <<created, disk>>
    /\ UNCHANGED <<args, mainPc, dirs, targetDir, sourceFiles, processCalls, pauses,
                   resizeVars, compressVars>>

\* process(), lines 53-56: write_all, then Ok(file_name).
TaskWrite(i) ==
    /\ mainPc = "running"
    /\ task[i].pc = "created"
    /\ LET target == TargetFile(targetDir, sourceFiles[i])
       IN \E ok \in BOOLEAN :
            IF ok
            THEN /\ task' = [task EXCEPT ![i].pc = "ok"]
                 /\ disk' = {d \in disk : d.path # target}
                              \cup {[path |-> target, state |-> "complete",
                                     w |-> task[i].w, h |-> task[i].h]}
                 /\ Report(i, "ok")
            ELSE /\ task' = [task EXCEPT ![i] = [@ EXCEPT !.pc = "failed", !.failedAt = "write"]]
                 /\ Report(i, "fail")
                 /\ UNCHANGED disk
    /\ UNCHANGED <<args, mainPc, dirs, targetDir, sourceFiles, processCalls, created, pauses,
                   resizeVars, compressVars>>

\* A pause that does not wait for the tasks, as after a spawn without join.
MainPause_NoJoin ==
    /\ mainPc = "running"
    /\ mainPc' = "paused"
    /\ pauses' = pauses + 1
    /\ UNCHANGED <<args, dirs, targetDir, sourceFiles, task, processCalls, outcomes, created, disk,
                   resizeVars, compressVars>>

\* Line 34: for_each has returned, pause() prints its prompt and reads a key.
MainPause ==
    /\ mainPc = "running"
    /\ \A i \in DOMAIN task : task[i].pc \in Terminal
    /\ mainPc' = "paused"
    /\ pauses' = pauses + 1
    /\ UNCHANGED <<args, dirs, targetDir, sourceFiles, task, processCalls, outcomes, created, disk,
                   resizeVars, compressVars>>

\* Lines 126 and 35: the key arrives and main returns.
MainExit ==
    /\ mainPc = "paused"
    /\ mainPc' = "exited"
    /\ UNCHANGED <<args, dirs, targetDir, sourceFiles, task, processCalls, outcomes, created, disk, pauses,
                   resizeVars, compressVars>>

Next ==
    \/ MainNoArgs
    \/ MainSetupPanics
    \/ MainSetup
    \/ \E i \in DOMAIN task : TaskResizeCompress(i)
    \/ \E i \in DOMAIN task : TaskCreate(i)
    \/ \E i \in DOMAIN task : TaskWrite(i)
    \/ MainPause
    \/ MainExit

Spec == Init /\ [][Next]_vars


(***************************************************************************)
(*                               Claims                                    *)
(***************************************************************************)

\* C1: for every decoded source image with max(width, height) > TARGET_SIZE, the
\* dimensions resize returns satisfy max(newWidth, newHeight) = TARGET_SIZE.
C1_LargerSideIsBound ==
    (rPc = "returned" /\ Max(rWidth, rHeight) > TARGET_SIZE)
        => Max(rResult.w, rResult.h) = TARGET_SIZE

\* C4: when both source dimensions are <= TARGET_SIZE, resize returns exactly
\* the source width and height.
C4_PassThrough ==
    (rPc = "returned" /\ rWidth <= TARGET_SIZE /\ rHeight <= TARGET_SIZE)
        => rResult = [w |-> rWidth, h |-> rHeight]

\* C4's case: resize has returned for an image that fits the box, one side on the bound.
C4_Witness ==
    /\ rPc = "returned"
    /\ rWidth = TARGET_SIZE
    /\ rHeight < TARGET_SIZE
    /\ rResult = [w |-> rWidth, h |-> rHeight]

\* C5: for every source image with max(width, height) > TARGET_SIZE the smaller
\* output dimension is floor(other * TARGET_SIZE / larger); a 4000x3000 image
\* gives exactly 1280x960.
C5_FloorAfterMultiply ==
    (rPc = "returned" /\ Max(rWidth, rHeight) > TARGET_SIZE)
        => /\ IF rWidth > rHeight
              THEN rResult.h = (rHeight * TARGET_SIZE) \div rWidth
              ELSE rResult.w = (rWidth * TARGET_SIZE) \div rHeight
           /\ (rWidth = 4000 /\ rHeight = 3000) => rResult = [w |-> 1280, h |-> 960]

\* C7: compress called with target_width = 0 or target_height = 0 returns an
\* error; it does not panic (underflow, index out of bounds) and it writes no
\* scanline.
C7_ZeroSizeIsAnError ==
    (cPc # "idle" /\ (cWidth = 0 \/ cHeight = 0))
        => /\ cPc # "panicked"
           /\ rows = <<>>
           /\ cPc = "returned" => cResult = "Err"

\* C9: for target_height >= 1 the scanline loop writes rows 0, 1, ...,
\* target_height - 1 in this order, each once, row l as the slice
\* [l * width * 3, (l + 1) * width * 3), and ends after target_height rows
\* without a panic.
C9_ScanlineLoop ==
    (cPc # "idle" /\ cHeight >= 1)
        => /\ line <= cHeight
           /\ Len(rows) = line
           /\ \A k \in 1..Len(rows) :
                 rows[k] = [line |-> k - 1,
                            from |-> (k - 1) * cWidth * 3,
                            to |-> k * cWidth * 3]
           /\ cPc \in {"finish", "returned"} => Len(rows) = cHeight
           /\ cPc # "panicked"

\* C9's case: compress has returned after a loop of several rows.
C9_Witness ==
    /\ cPc = "returned"
    /\ cWidth >= 1
    /\ cHeight >= 2
    /\ Len(rows) = cHeight
    /\ rows[cHeight].line = cHeight - 1

\* What the claims call an eligible file: a regular file with an extension; a
\* corrupt one is an eligible file that is no image when the program starts.
IsRegularFileWithExtension(p) == Entry(p).kind = "file" /\ p.name.ext # ""
IsCorrupt(p) == IsRegularFileWithExtension(p) /\ ~Entry(p).image
Count(seq, p) == Cardinality({k \in DOMAIN seq : seq[k] = p})
BatchDone == mainPc \in {"paused", "exited"}

\* C2: a batch of N distinct valid files and one corrupt file, all eligible,
\* ends with exactly N success outcomes and exactly 1 failure outcome, one
\* outcome per input (no failure of the encoder or of the output device
\* occurring).
C2_OneCorruptFileAmongValid ==
    ( /\ BatchDone
      /\ \A k \in DOMAIN args : IsRegularFileWithExtension(args[k])
      /\ \A k, l \in DOMAIN args : k # l => args[k] # args[l]
      /\ Cardinality({k \in DOMAIN args : IsCorrupt(args[k])}) = 1
      /\ \A i \in DOMAIN task : task[i].failedAt \notin {"compress", "create", "write"} )
        => /\ DOMAIN outcomes = DOMAIN args
           /\ \A i \in DOMAIN outcomes : Len(outcomes[i]) = 1
           /\ Cardinality({i \in DOMAIN outcomes : outcomes[i] = <<"ok">>}) = Len(args) - 1
           /\ Cardinality({i \in DOMAIN outcomes : outcomes[i] = <<"fail">>}) = 1

\* C3: for every file whose processing ends in a failure, this call of process
\* has not created its output file.
C3_NoOutputOnFailure ==
    \A i \in DOMAIN task :
        task[i].pc = "failed"
            => ~task[i].made /\ ~(\E c \in created : c.by = i)

\* C6: whenever main has ended, for every argument list including the empty
\* one, the pause has been performed, after all dispatched files reported.
C6_AlwaysPauses ==
    mainPc \in {"returned", "exited", "panicked"}
        => /\ pauses = 1
           /\ \A i \in DOMAIN task : Len(outcomes[i]) = 1

\* C6 as amended: main ends without a pause only when it is given no argument
\* or when its setup fails before any file is dispatched; otherwise it ends
\* after exactly one pause, and the pause begins only when every dispatched
\* file has reported its one outcome.
C6_PausesAfterBatch ==
    /\ mainPc = "returned" => Len(args) = 0 /\ pauses = 0
    /\ mainPc = "panicked" => Len(args) > 0 /\ pauses = 0 /\ Len(sourceFiles) = 0
    /\ mainPc \in {"paused", "exited"}
          => /\ pauses = 1
             /\ Len(args) > 0
             /\ \A i \in DOMAIN task : task[i].pc \in Terminal /\ Len(outcomes[i]) = 1
    /\ mainPc \in {"start", "running"} => pauses = 0

\* C6's case: main has ended after a batch in which one file failed and one succeeded.
C6_Witness ==
    /\ mainPc = "exited"
    /\ pauses = 1
    /\ \E i \in DOMAIN outcomes : outcomes[i] = <<"ok">>
    /\ \E i \in DOMAIN outcomes : outcomes[i] = <<"fail">>

\* C8: an argument that is a directory, is not a regular file or has no
\* extension is never passed to process and gets no outcome; when the batch is
\* done every argument that is a regular file with an extension has been passed
\* to process exactly once and has exactly one outcome.
C8_FilterBeforeDispatch ==
    /\ \A p \in Paths :
          /\ ~IsRegularFileWithExtension(p)
                => processCalls[p] = 0 /\ Count(sourceFiles, p) = 0
          /\ processCalls[p] <= Count(args, p)
    /\ BatchDone
          => /\ \A p \in Paths :
                   IsRegularFileWithExtension(p) => processCalls[p] = Count(args, p)
             /\ Len(outcomes) =
                   Cardinality({k \in DOMAIN args : IsRegularFileWithExtension(args[k])})
             /\ \A i \in DOMAIN outcomes : Len(outcomes[i]) = 1

\* C8's case: a batch is done whose arguments held a directory, a file without
\* extension and a file that was dispatched.
C8_Witness ==
    /\ BatchDone
    /\ \E k \in DOMAIN args : Entry(args[k]).kind = "dir"
    /\ \E k \in DOMAIN args : Entry(args[k]).kind = "file" /\ args[k].name.ext = ""
    /\ \E k \in DOMAIN args : IsRegularFileWithExtension(args[k]) /\ processCalls[args[k]] = 1

\* C10: for any two tasks with distinct input paths, the output file one of
\* them writes is neither the output file nor the input file of the other.
C10_NoSharedFile ==
    \A c \in created : \A j \in DOMAIN sourceFiles :
        sourceFiles[j] # sourceFiles[c.by]
            => /\ c.path # sourceFiles[j]
               /\ \A c2 \in created : c2.by = j => c2.path # c.path

====
